---- MODULE Spec2Model ----
(***************************************************************************)
(* Session-backed authentication of UniLife2.                              *)
(*                                                                         *)
(* server.js holds three bootstraps one after the other (lines 1-26,       *)
(* 27-75 and 77-290).  The variable boot says which of them is the one     *)
(* that runs; the server's properties are stated over all three.             *)
(*                                                                         *)
(* The session middleware is express-session configured at server.js       *)
(* 146-154 (resave: false, saveUninitialized: false): req.session is the   *)
(* stored session of the cookie's identifier when the store has one, and   *)
(* a new, empty session otherwise; a session is written to the store at    *)
(* the end of a request only when the handler changed it.                  *)
(***************************************************************************)
EXTENDS Naturals, Integers, Sequences, FiniteSets, Bags, TLC

\* ------------------------------------------------------------------ bounds
MaxSessions == 2      \* session identifiers the store hands out
MaxInflight == 1      \* login requests suspended at an await at one time
MaxMounts   == 2      \* times the AuthProvider is mounted (page loads)

\* ------------------------------------------------------------- vocabulary
None      == "none"
Forged    == "forged"     \* a session identifier the server never issued
Fresh     == "fresh"      \* req.session is a new session, not yet stored
Undefined == "undefined"  \* req.session when no session middleware ran

\* the identifier the session middleware generates n-th
Sid(n) == "sid" \o ToString(n)

\* a falsy user: null in the client, undefined in req.session
Absent == [id |-> 0, username |-> "", email |-> ""]

Boots == {1, 2, 3}

\* process.env.SESSION_SECRET: undefined, or a string (a sequence of characters)
Secrets == {None, <<>>, <<" ">>, <<"k", "3", "y">>}

StoredNames == {"alice"}
\* the bodies {username, password} of the login requests tried
Credentials == {<<"alice", "secret123">>, <<"alice", "wrong">>, <<"carol", "secret123">>}
Emails      == {"alice@uni.edu", "alice@mail.com"}

\* bcrypt: the hash carries its salt; compare re-hashes the plaintext with it
Hash(salt, plain) == <<"$2b$", salt, plain>>
BcryptCompare(plain, hash) == Hash(hash[2], plain) = hash

InitUsers ==
    [u \in StoredNames |->
        [id |-> 1, username |-> u, email |-> "alice@uni.edu",
         password |-> Hash("salt", "secret123")]]

VARIABLES
    \* --- server process
    boot,          \* which bootstrap of server.js runs
    secret,        \* process.env.SESSION_SECRET
    phase,         \* position of the startup code
    sessSync,      \* sessionStore.sync(): "none", "pending", "ok", "failed"
    dbSync,        \* sequelize.sync():    "none", "pending", "ok", "failed"
    listening,     \* app.listen() was called and the process is alive
    everListened,  \* history: the process has listened at some time
    \* --- stores
    users,         \* Credential Store: username -> row
    sessions,      \* Session Store: live identifier -> session.user
    nextSid,       \* next identifier the session middleware generates
    \* --- requests
    inflight,      \* bag of login requests suspended at an await
    resp,          \* the response on its way to a direct HTTP caller
    \* --- history of responses
    returned,      \* the earliest answer [sid, user] of a successful login
                   \* whose session was not logged out and did not expire
    yielded,       \* identifiers yielded by successful logins
    \* --- browser (AuthContext.js / authApi.js)
    user,          \* useState: the cached user
    cookie,        \* the browser's session cookie
    calls,         \* per client function: its outstanding HTTP exchange
    mounts,        \* number of mounts so far
    \* --- final error-handling stage (server.js 191-232)
    thrown,        \* the value passed to next(err)
    sent           \* what the stage answered

serverVars == <<boot, secret, phase, sessSync, dbSync, listening, everListened>>
storeVars  == <<users, sessions, nextSid>>
histVars   == <<returned, yielded>>
browserVars == <<user, cookie, calls, mounts>>
errVars    == <<thrown, sent>>
clientVars == <<browserVars, errVars>>
nonServerVars == <<storeVars, inflight, resp, histVars, clientVars>>
vars == <<serverVars, storeVars, inflight, resp, histVars, clientVars>>


\* ------------------------------------------------------------- bootstraps
\* server.js 1-26 mounts the routes and never installs a session middleware;
\* 27-75 mounts the routes (line 46) before the session middleware (line 48),
\* so the middleware never runs for them; 77-290 installs it first (146, 168).
SessionBeforeRoutes(b) == b = 3

\* server.js 120: !SECRET || typeof SECRET !== 'string' || SECRET.trim() === ''
RECURSIVE TrimLeft(_)
TrimLeft(s) == IF s # <<>> /\ Head(s) = " " THEN TrimLeft(Tail(s)) ELSE s
RECURSIVE TrimRight(_)
TrimRight(s) ==
    IF s # <<>> /\ s[Len(s)] = " " THEN TrimRight(SubSeq(s, 1, Len(s) - 1)) ELSE s
Trim(s) == TrimRight(TrimLeft(s))
SecretValid(s) == s # None /\ s # <<>> /\ Trim(s) # <<>>

\* ------------------------------------------------------- session middleware
\* req.session as the handler sees it
ReqSession(b, sid, store) ==
    IF ~SessionBeforeRoutes(b) THEN [id |-> Undefined, user |-> Absent]
    ELSE IF sid \in DOMAIN store THEN [id |-> sid, user |-> store[sid]]
    ELSE [id |-> Fresh, user |-> Absent]

Remove(store, sid) == [s \in DOMAIN store \ {sid} |-> store[s]]

\* ------------------------------------------------------------- controllers
Snapshot(row) == [id |-> row.id, username |-> row.username, email |-> row.email]

Answer(status, message, usr, setCookie, store, next) ==
    [status |-> status, message |-> message, user |-> usr, cookie |-> setCookie,
     sessions |-> store, nextSid |-> next]

\* the slip the failed-login claim guards against: req.session.user is set as
\* soon as the row is found, before the password is compared
LoginHandlerAssignsEarly(session, rows, password, fault, store, next) ==
    IF fault = "query"
    THEN Answer(500, "Sunucu hatasi", Absent, None, store, next)
    ELSE IF Len(rows) = 0
    THEN Answer(400, "Kullanici bulunamadi", Absent, None, store, next)
    ELSE IF session.id = Undefined
    THEN Answer(500, "Sunucu hatasi", Absent, None, store, next)
    ELSE LET sid    == IF session.id = Fresh THEN Sid(next) ELSE session.id
             snap   == Snapshot(rows[1])
             saved  == (sid :> snap) @@ store
             issued == IF session.id = Fresh THEN next + 1 ELSE next
         IN  IF fault = "compare"
             THEN Answer(500, "Sunucu hatasi", Absent, None, saved, issued)
             ELSE IF ~BcryptCompare(password, rows[1].password)
             THEN Answer(400, "Sifre hatali", Absent, None, saved, issued)
             ELSE Answer(200, "Giris basarili", snap, sid, saved, issued)

\* authController.js 4-40, from the first await's result on.  rows is the
\* query's result; fault names the dependency that fails in this request.
LoginHandler(session, rows, password, fault, store, next) ==
    IF fault = "query"
    THEN Answer(500, "Sunucu hatasi", Absent, None, store, next)
    ELSE IF Len(rows) = 0
    THEN Answer(400, "Kullanici bulunamadi", Absent, None, store, next)
    ELSE IF fault = "compare"
    THEN Answer(500, "Sunucu hatasi", Absent, None, store, next)
    ELSE IF ~BcryptCompare(password, rows[1].password)
    THEN Answer(400, "Sifre hatali", Absent, None, store, next)
    ELSE IF session.id = Undefined   \* TypeError at line 28, caught at line 36
    THEN Answer(500, "Sunucu hatasi", Absent, None, store, next)
    ELSE LET sid  == IF session.id = Fresh THEN Sid(next) ELSE session.id
             snap == Snapshot(rows[1])
         IN  Answer(200, "Giris basarili", snap, sid,
                    IF fault = "save" THEN store ELSE (sid :> snap) @@ store,
                    IF session.id = Fresh THEN next + 1 ELSE next)

\* authController.js 41-46
MeHandler(session, store, next) ==
    IF session.id = Undefined        \* TypeError at line 42, answered by Express
    THEN Answer(500, "Internal Server Error", Absent, None, store, next)
    ELSE IF session.user = Absent
    THEN Answer(401, "Giris yapilmamis", Absent, None, store, next)
    ELSE Answer(200, "", session.user, None, store, next)

\* authController.js 48-52: the callback of destroy ignores its error argument
LogoutHandler(session, fault, store, next) ==
    IF session.id = Undefined        \* TypeError at line 49, answered by Express
    THEN Answer(500, "Internal Server Error", Absent, None, store, next)
    ELSE Answer(200, "Cikis yapildi", Absent, None,
                IF fault = "destroy" THEN store ELSE Remove(store, session.id), next)


\* ------------------------------------------------------------------ initial
\* a response.  sid is the request's cookie (for login: the id of the
\* req.session it was given); known and match tell whether the request's
\* username is stored and whether its password matches the stored hash.
\* The messages are the source's, written in ASCII.
NoResp ==
    [op |-> "none", sid |-> None, known |-> FALSE, match |-> FALSE,
     fault |-> "none", status |-> 0, message |-> "", user |-> Absent,
     cookie |-> None]

NoReturn == [sid |-> None, user |-> Absent]

\* the client's functions (AuthContext.js 9, 15, 20), one exchange each
Slots == {"fetchUser", "login", "logout"}

\* an exchange: stage is "idle", "sent" (request on the wire, with the cookie
\* sid and the body), "atServer" (login suspended at its await), "replied"
\* (response on the wire; status 0: the request failed without a response),
\* then "fulfilled" or "rejected": how the function's promise settled
Exchange(stage, sid, username, password, status, usr, setCookie) ==
    [stage |-> stage, sid |-> sid, username |-> username, password |-> password,
     status |-> status, user |-> usr, cookie |-> setCookie]
Idle == Exchange("idle", None, "", "", 0, Absent, None)

NoThrow == [kind |-> "none"]
NoSent  == [status |-> 0, body |-> [message |-> ""], fallback |-> FALSE]

InitStores ==
    /\ users = InitUsers
    /\ sessions = << >>
    /\ nextSid = 1
    /\ inflight = EmptyBag
    /\ resp = NoResp
    /\ returned = NoReturn
    /\ yielded = {}

InitClient ==
    /\ user = Absent
    /\ cookie = None
    /\ calls = [s \in Slots |-> Idle]
    /\ mounts = 0

\* the process as node starts to evaluate server.js
Init ==
    /\ boot \in Boots
    /\ secret \in Secrets
    /\ phase = "load"
    /\ sessSync = "none"
    /\ dbSync = "none"
    /\ listening = FALSE
    /\ everListened = FALSE
    /\ InitStores
    /\ InitClient
    /\ thrown = NoThrow
    /\ sent = NoSent

\* ------------------------------------------------------------------ startup
\* server.js 10-26: no configuration, no sync; listen at load
Start1 ==
    /\ boot = 1 /\ phase = "load"
    /\ phase' = "running"
    /\ listening' = TRUE
    /\ everListened' = TRUE
    /\ UNCHANGED <<boot, secret, sessSync, dbSync>>
    /\ UNCHANGED nonServerVars

\* server.js 58-75: both syncs are started and not awaited; listen at load
Start2 ==
    /\ boot = 2 /\ phase = "load"
    /\ phase' = "running"
    /\ sessSync' = "pending"
    /\ dbSync' = "pending"
    /\ listening' = TRUE
    /\ everListened' = TRUE
    /\ UNCHANGED <<boot, secret>>
    /\ UNCHANGED nonServerVars

\* server.js 58: the promise of sessionStore.sync() settles; nothing handles a
\* rejection, which ends the process or not, by the Node version's default
SessionSync2(ok, fatal) ==
    /\ boot = 2 /\ phase = "running" /\ sessSync = "pending"
    /\ sessSync' = IF ok THEN "ok" ELSE "failed"
    /\ phase' = IF ~ok /\ fatal THEN "exited" ELSE phase
    /\ listening' = IF ~ok /\ fatal THEN FALSE ELSE listening
    /\ UNCHANGED <<boot, secret, dbSync, everListened>>
    /\ UNCHANGED nonServerVars

\* server.js 63-65: a rejection of sequelize.sync() is logged, nothing more
DbSync2(ok) ==
    /\ boot = 2 /\ phase = "running" /\ dbSync = "pending"
    /\ dbSync' = IF ok THEN "ok" ELSE "failed"
    /\ UNCHANGED <<boot, secret, phase, sessSync, listening, everListened>>
    /\ UNCHANGED nonServerVars

\* server.js 120-125: process.exit(1) without a valid SESSION_SECRET
ValidateConfig ==
    /\ boot = 3 /\ phase = "load"
    /\ phase' = IF SecretValid(secret) THEN "syncSession" ELSE "exited"
    /\ UNCHANGED <<boot, secret, sessSync, dbSync, listening, everListened>>
    /\ UNCHANGED nonServerVars

\* server.js 244-247: await sessionStore.sync(); a rejection goes to line 267
SessionSync3(ok) ==
    /\ boot = 3 /\ phase = "syncSession"
    /\ sessSync' = IF ok THEN "ok" ELSE "failed"
    /\ phase' = IF ok THEN "syncDb" ELSE "exiting"
    /\ UNCHANGED <<boot, secret, dbSync, listening, everListened>>
    /\ UNCHANGED nonServerVars

\* server.js 251-260: await sequelize.sync(); a rejection goes to line 267
DbSync3(ok) ==
    /\ boot = 3 /\ phase = "syncDb"
    /\ dbSync' = IF ok THEN "ok" ELSE "failed"
    /\ phase' = IF ok THEN "listen" ELSE "exiting"
    /\ UNCHANGED <<boot, secret, sessSync, listening, everListened>>
    /\ UNCHANGED nonServerVars

\* server.js 263-265
Listen3 ==
    /\ boot = 3 /\ phase = "listen"
    /\ phase' = "running"
    /\ listening' = TRUE
    /\ everListened' = TRUE
    /\ UNCHANGED <<boot, secret, sessSync, dbSync>>
    /\ UNCHANGED nonServerVars

\* server.js 273: setTimeout(() => process.exit(1), 100)
ExitTimer ==
    /\ phase = "exiting"
    /\ phase' = "exited"
    /\ listening' = FALSE
    /\ UNCHANGED <<boot, secret, sessSync, dbSync, everListened>>
    /\ UNCHANGED nonServerVars

Serving == listening /\ phase = "running"


\* ------------------------------------------------- requests of HTTP callers
\* what a caller can present as its session cookie
Presentable == {None, Forged} \cup {Sid(n) : n \in 1..(nextSid - 1)}

\* authController.js 9-12: SELECT * FROM users WHERE username = ?
Query(table, username) ==
    IF username \in DOMAIN table THEN <<table[username]>> ELSE << >>

Known(username) == Len(Query(users, username)) > 0
Match(username, password) ==
    Known(username) /\ BcryptCompare(password, Query(users, username)[1].password)

\* the dependency failures a login request can meet: the query, the password
\* comparison when a row came back, the session's save when line 28 changed it
Faults(r) ==
    {"none", "query"}
    \cup (IF Known(r.username) THEN {"compare"} ELSE {})
    \cup (IF Match(r.username, r.password) /\ r.session # Undefined
          THEN {"save"} ELSE {})

\* a login request suspended at line 9: session is the id of its req.session
Suspended(from, sid, username, password) ==
    [from |-> from, session |-> ReqSession(boot, sid, sessions).id,
     username |-> username, password |-> password]

\* authController.js 4-12: the session middleware has loaded req.session, the
\* handler has sent its query and is suspended at the await
HttpLoginBegin(sid, username, password) ==
    /\ Serving
    /\ BagCardinality(inflight) < MaxInflight
    /\ inflight' = inflight (+) SetToBag({Suspended("http", sid, username, password)})
    /\ UNCHANGED <<serverVars, storeVars, resp, histVars, clientVars>>

Replied(a) == Exchange("replied", None, "", "", a.status, a.user, a.cookie)

\* authController.js 9-39, and the session's save as the response ends
LoginEnd(r, fault) ==
    LET a == LoginHandler([id |-> r.session, user |-> Absent],
                          IF fault = "query" THEN << >> ELSE Query(users, r.username),
                          r.password, fault, sessions, nextSid)
    IN  /\ Serving
        /\ BagIn(r, inflight)
        /\ fault \in Faults(r)
        /\ a.nextSid <= MaxSessions + 1
        /\ inflight' = inflight (-) SetToBag({r})
        /\ sessions' = a.sessions
        /\ nextSid' = a.nextSid
        /\ IF r.from = "http"
           THEN /\ resp = NoResp
                /\ resp' = [op |-> "login", sid |-> r.session,
                            known |-> Known(r.username),
                            match |-> Match(r.username, r.password),
                            fault |-> fault, status |-> a.status,
                            message |-> a.message, user |-> a.user,
                            cookie |-> a.cookie]
                /\ returned' = IF a.status = 200 /\ returned = NoReturn
                               THEN [sid |-> a.cookie, user |-> a.user]
                               ELSE returned
                /\ yielded' = IF a.status = 200 THEN yielded \cup {a.cookie}
                              ELSE yielded
                /\ UNCHANGED calls
           ELSE /\ calls' = [calls EXCEPT ![r.from] = Replied(a)]
                /\ UNCHANGED <<resp, returned, yielded>>
        /\ UNCHANGED <<serverVars, users, user, cookie, mounts, errVars>>

\* what GET /me answers for an identifier in the current state
Me(sid) == MeHandler(ReqSession(boot, sid, sessions), sessions, nextSid)

\* GET /me of an HTTP caller
HttpMe(sid) ==
    LET a == Me(sid)
    IN  /\ Serving
        /\ resp = NoResp
        /\ resp' = [op |-> "me", sid |-> sid, known |-> FALSE, match |-> FALSE,
                    fault |-> "none", status |-> a.status, message |-> a.message,
                    user |-> a.user, cookie |-> a.cookie]
        /\ UNCHANGED <<serverVars, storeVars, inflight, histVars, clientVars>>

\* POST /logout of an HTTP caller
HttpLogout(sid, destroyFails) ==
    LET fault == IF destroyFails THEN "destroy" ELSE "none"
        a == LogoutHandler(ReqSession(boot, sid, sessions), fault, sessions, nextSid)
    IN  /\ Serving
        /\ resp = NoResp
        /\ destroyFails => sid \in DOMAIN sessions
        /\ sessions' = a.sessions
        /\ resp' = [op |-> "logout", sid |-> sid, known |-> FALSE, match |-> FALSE,
                    fault |-> fault, status |-> a.status, message |-> a.message,
                    user |-> a.user, cookie |-> a.cookie]
        /\ returned' = IF returned.sid = sid THEN NoReturn ELSE returned
        /\ UNCHANGED <<serverVars, users, nextSid, inflight, yielded, clientVars>>

\* the caller takes the response off the wire
HttpReceive ==
    /\ resp # NoResp
    /\ resp' = NoResp
    /\ UNCHANGED <<serverVars, storeVars, inflight, histVars, clientVars>>

\* server.js 151-153: a stored session passes its maxAge of one day
Expire(sid) ==
    /\ sid \in DOMAIN sessions
    /\ sessions' = Remove(sessions, sid)
    /\ returned' = IF returned.sid = sid THEN NoReturn ELSE returned
    /\ UNCHANGED <<serverVars, users, nextSid, inflight, resp, yielded,
                   clientVars>>

\* a user's row is edited out of band: the user moves to a new address
ChangeEmail(username, email) ==
    /\ username \in DOMAIN users
    /\ users[username].email = InitUsers[username].email
    /\ email # users[username].email
    /\ users' = [users EXCEPT ![username].email = email]
    /\ UNCHANGED <<serverVars, sessions, nextSid, inflight, resp, histVars,
                   clientVars>>

Next ==
    \/ Start1
    \/ Start2
    \/ \E ok \in BOOLEAN, fatal \in BOOLEAN : SessionSync2(ok, fatal)
    \/ \E ok \in BOOLEAN : DbSync2(ok)
    \/ ValidateConfig
    \/ \E ok \in BOOLEAN : SessionSync3(ok)
    \/ \E ok \in BOOLEAN : DbSync3(ok)
    \/ Listen3
    \/ ExitTimer
    \/ \E sid \in Presentable, c \in Credentials : HttpLoginBegin(sid, c[1], c[2])
    \/ \E r \in BagToSet(inflight), f \in {"none", "query", "compare", "save"} :
           LoginEnd(r, f)
    \/ \E sid \in Presentable : HttpMe(sid)
    \/ \E sid \in Presentable, df \in BOOLEAN : HttpLogout(sid, df)
    \/ HttpReceive
    \/ \E sid \in DOMAIN sessions : Expire(sid)
    \/ \E u \in StoredNames, e \in Emails : ChangeEmail(u, e)

Spec == Init /\ [][Next]_vars


\* ------------------------------------------------------------------ browser
\* The browser runs the AuthProvider against a server that is up and whose
\* dependencies work; an exchange can still fail before it reaches the server.
InitServing ==
    /\ boot \in Boots
    /\ secret = <<"k", "3", "y">>
    /\ phase = "running"
    /\ sessSync = (IF boot = 1 THEN "none" ELSE "ok")
    /\ dbSync = (IF boot = 1 THEN "none" ELSE "ok")
    /\ listening = TRUE
    /\ everListened = TRUE
    /\ InitStores
    /\ InitClient
    /\ thrown = NoThrow
    /\ sent = NoSent

Settled(slot) == calls[slot].stage \in {"idle", "fulfilled", "rejected"}

\* AuthContext.js 7, 25-27: the provider mounts (a page load): the state is
\* null and the effect calls fetchUser; authApi.js 42 sends GET /me with the
\* cookie.  A page is not reloaded while a call is outstanding.
Mount ==
    /\ mounts < MaxMounts
    /\ \A s \in Slots : Settled(s)
    /\ mounts' = mounts + 1
    /\ user' = Absent
    /\ calls' = [s \in Slots |->
                    IF s = "fetchUser"
                    THEN Exchange("sent", cookie, "", "", 0, Absent, None)
                    ELSE Idle]
    /\ UNCHANGED <<serverVars, storeVars, inflight, resp, histVars, cookie, errVars>>

\* AuthContext.js 9-10, authApi.js 24: login(username, password) is called
LoginCall(username, password) ==
    /\ mounts > 0
    /\ Settled("login")
    /\ calls' = [calls EXCEPT
                    !["login"] = Exchange("sent", cookie, username, password,
                                          0, Absent, None)]
    /\ UNCHANGED <<serverVars, storeVars, inflight, resp, histVars, user, cookie,
                   mounts, errVars>>

\* AuthContext.js 15-16, authApi.js 33: logout() is called
LogoutCall ==
    /\ mounts > 0
    /\ Settled("logout")
    /\ calls' = [calls EXCEPT
                    !["logout"] = Exchange("sent", cookie, "", "", 0, Absent, None)]
    /\ UNCHANGED <<serverVars, storeVars, inflight, resp, histVars, user, cookie,
                   mounts, errVars>>

\* axios rejects without a response: the request never reached the server
NetFail(slot) ==
    /\ calls[slot].stage = "sent"
    /\ calls' = [calls EXCEPT ![slot] = Exchange("replied", None, "", "", 0, Absent, None)]
    /\ UNCHANGED <<serverVars, storeVars, inflight, resp, histVars, user, cookie,
                   mounts, errVars>>

\* the server handles the browser's GET /me
ServeMe ==
    /\ Serving
    /\ calls["fetchUser"].stage = "sent"
    /\ calls' = [calls EXCEPT !["fetchUser"] = Replied(Me(calls["fetchUser"].sid))]
    /\ UNCHANGED <<serverVars, storeVars, inflight, resp, histVars, user, cookie,
                   mounts, errVars>>

\* the server takes the browser's POST /login up to its first await
ServeLoginBegin ==
    /\ Serving
    /\ calls["login"].stage = "sent"
    /\ BagCardinality(inflight) < MaxInflight
    /\ inflight' = inflight (+)
           SetToBag({Suspended("login", calls["login"].sid,
                               calls["login"].username, calls["login"].password)})
    /\ calls' = [calls EXCEPT !["login"].stage = "atServer"]
    /\ UNCHANGED <<serverVars, storeVars, resp, histVars, user, cookie, mounts,
                   errVars>>

\* the server handles the browser's POST /logout
ServeLogout ==
    LET a == LogoutHandler(ReqSession(boot, calls["logout"].sid, sessions), "none",
                           sessions, nextSid)
    IN  /\ Serving
        /\ calls["logout"].stage = "sent"
        /\ sessions' = a.sessions
        /\ calls' = [calls EXCEPT !["logout"] = Replied(a)]
        /\ UNCHANGED <<serverVars, users, nextSid, inflight, resp, histVars, user,
                       cookie, mounts, errVars>>

\* axios resolves for a 2xx status and rejects otherwise (authApi.js 23-28)
Resolves(x) == x.status >= 200 /\ x.status < 300

\* the browser stores the cookie of a Set-Cookie header
Jar(x) == IF x.cookie # None THEN x.cookie ELSE cookie

Done(slot, ok) ==
    [calls EXCEPT ![slot] = Exchange(IF ok THEN "fulfilled" ELSE "rejected",
                                     None, "", "", 0, Absent, None)]

\* AuthContext.js 20-23, authApi.js 40-47: getCurrentUser returns res.data.user
\* or throws; fetchUser has no catch and the effect (line 26) drops its promise
FetchSettle ==
    /\ calls["fetchUser"].stage = "replied"
    /\ user' = IF Resolves(calls["fetchUser"]) THEN calls["fetchUser"].user ELSE user
    /\ cookie' = Jar(calls["fetchUser"])
    /\ calls' = Done("fetchUser", Resolves(calls["fetchUser"]))
    /\ UNCHANGED <<serverVars, storeVars, inflight, resp, histVars, mounts, errVars>>

\* AuthContext.js 9-13, authApi.js 22-29
LoginSettle ==
    /\ calls["login"].stage = "replied"
    /\ user' = IF Resolves(calls["login"]) THEN calls["login"].user ELSE user
    /\ cookie' = Jar(calls["login"])
    /\ calls' = Done("login", Resolves(calls["login"]))
    /\ UNCHANGED <<serverVars, storeVars, inflight, resp, histVars, mounts, errVars>>

\* the slip the logout claim guards against: setUser(null) in a finally block
LogoutSettleInFinally ==
    /\ calls["logout"].stage = "replied"
    /\ user' = Absent
    /\ cookie' = Jar(calls["logout"])
    /\ calls' = Done("logout", Resolves(calls["logout"]))
    /\ UNCHANGED <<serverVars, storeVars, inflight, resp, histVars, mounts, errVars>>

\* AuthContext.js 15-18, authApi.js 31-38: setUser(null) follows the await
LogoutSettle ==
    /\ calls["logout"].stage = "replied"
    /\ user' = IF Resolves(calls["logout"]) THEN Absent ELSE user
    /\ cookie' = Jar(calls["logout"])
    /\ calls' = Done("logout", Resolves(calls["logout"]))
    /\ UNCHANGED <<serverVars, storeVars, inflight, resp, histVars, mounts, errVars>>

NextClient ==
    \/ Mount
    \/ \E c \in Credentials : LoginCall(c[1], c[2])
    \/ LogoutCall
    \/ \E s \in Slots : NetFail(s)
    \/ ServeMe
    \/ ServeLoginBegin
    \/ \E r \in BagToSet(inflight) : LoginEnd(r, "none")
    \/ ServeLogout
    \/ FetchSettle
    \/ LoginSettle
    \/ LogoutSettle

SpecClient == InitServing /\ [][NextClient]_vars

\* ----------------------------------------------------- error-handling stage
\* err.status: undefined, an integer, or a value that is no integer
StatusValues ==
    {[type |-> "undefined", n |-> 0], [type |-> "string", n |-> 0]}
    \cup {[type |-> "int", n |-> n] : n \in {0, 42, 200, 404, 503}}

\* the values a middleware can pass to next(err): error objects, and
\* primitives (null, undefined, '' and 0 are falsy; text is String(err))
Thrown ==
    [kind : {"object"}, status : StatusValues, name : {"Error", "ValidationError"},
     message : {"", "boom"}, details : {None, "field username"},
     stack : {"Error: boom at login (authController.js)"},
     falsy : {FALSE}, text : {""}]
    \cup [kind : {"primitive"}, status : {[type |-> "undefined", n |-> 0]},
          name : {""}, message : {""}, details : {None}, stack : {""},
          falsy : {TRUE}, text : {"", "null", "0"}]
    \cup [kind : {"primitive"}, status : {[type |-> "undefined", n |-> 0]},
          name : {""}, message : {""}, details : {None}, stack : {""},
          falsy : {FALSE}, text : {"oops", "7"}]

GenericMessage == "Sunucu hatasi olustu. Lutfen daha sonra tekrar deneyin."
MinimalMessage == "Beklenmedik bir hata olustu."

\* server.js 197-200: a value that is no object becomes a new Error
Normalize(err) ==
    IF err.kind # "object"
    THEN [kind |-> "object", status |-> [type |-> "undefined", n |-> 0],
          name |-> "Error",
          message |-> IF err.falsy THEN "Bilinmeyen hata" ELSE err.text,
          details |-> None,
          stack |-> "Error at errorHandler (server.js)",
          falsy |-> FALSE, text |-> ""]
    ELSE err

\* server.js 203
StatusOf(err) ==
    IF err.status.type = "int" /\ err.status.n # 0 THEN err.status.n
    ELSE IF err.name = "ValidationError" THEN 400 ELSE 500

\* server.js 225: the response cannot carry a status code outside 100..999,
\* res.status(status).json(...) throws for one
Sendable(status) == status >= 100 /\ status <= 999

\* the slip the error-stage claim guards against: the payload is built from
\* the error itself, message and stack included
ErrorHandlerLeaks(thrownValue, sendFails) ==
    LET err    == Normalize(thrownValue)
        status == StatusOf(err)
    IN  IF sendFails \/ ~Sendable(status)
        THEN [status |-> 500, body |-> [message |-> MinimalMessage], fallback |-> TRUE]
        ELSE [status |-> status,
              body |-> [message |-> err.message, stack |-> err.stack],
              fallback |-> FALSE]

\* server.js 191-232; sendFails: writing the response throws
ErrorHandler(thrownValue, sendFails) ==
    LET err     == Normalize(thrownValue)
        status  == StatusOf(err)
        message == IF status >= 500 THEN GenericMessage
                   ELSE IF err.message # "" THEN err.message ELSE "Istek hatali"
        payload == IF status >= 400 /\ status < 500 /\ err.details # None
                   THEN [message |-> message, details |-> err.details]
                   ELSE [message |-> message]
    IN  IF sendFails \/ ~Sendable(status)
        THEN [status |-> 500, body |-> [message |-> MinimalMessage], fallback |-> TRUE]
        ELSE [status |-> status, body |-> payload, fallback |-> FALSE]

InitErr ==
    /\ boot = 3
    /\ secret = <<"k", "3", "y">>
    /\ phase = "running"
    /\ sessSync = "ok"
    /\ dbSync = "ok"
    /\ listening = TRUE
    /\ everListened = TRUE
    /\ InitStores
    /\ InitClient
    /\ thrown \in Thrown
    /\ sent = NoSent

\* a middleware or route passes thrown to next(err)
HandleError(sendFails) ==
    /\ Serving
    /\ sent = NoSent
    /\ sent' = ErrorHandler(thrown, sendFails)
    /\ UNCHANGED <<serverVars, storeVars, inflight, resp, histVars, browserVars,
                   thrown>>

NextErr == \E sendFails \in BOOLEAN : HandleError(sendFails)

SpecErr == InitErr /\ [][NextErr]_vars

\* ------------------------------------------------------------------- claims
\* C1: a login whose username is not stored, or whose password does not match
\* the stored hash, is answered 400 with no user and no cookie, and the step
\* that answers it leaves the Session Store as it was: no session is created
\* and no stored session gains or changes its user.  (A request in which the
\* query or the comparison itself fails never learns whether the credentials
\* match; C5 is about those.)
C1_FailedLoginLeavesStore ==
    [][(/\ resp = NoResp
        /\ resp'.op = "login"
        /\ resp'.fault = "none"
        /\ ~resp'.match)
       => /\ resp'.status = 400
          /\ resp'.user = Absent
          /\ resp'.cookie = None
          /\ sessions' = sessions
          /\ nextSid' = nextSid]_vars

\* a login with a wrong password, sent with the cookie of a live session, was
\* answered 400
C1_Witness ==
    /\ resp.op = "login"
    /\ resp.known /\ ~resp.match
    /\ resp.fault = "none"
    /\ resp.status = 400
    /\ resp.sid \in DOMAIN sessions

\* C2: after a successful login returned a user for a session identifier,
\* GET /me with that identifier answers 200 with exactly that user until the
\* session is logged out or expires.
C2_SnapshotStable ==
    (Serving /\ returned # NoReturn)
        => (Me(returned.sid).status = 200 /\ Me(returned.sid).user = returned.user)

\* C3: GET /me answers 401 for every identifier without a live session; a
\* logout is answered 200, the second one too, and after it GET /me with its
\* identifier answers 401.
C3_Unauthenticated ==
    /\ Serving => \A sid \in Presentable :
                      sid \notin DOMAIN sessions => Me(sid).status = 401
    /\ resp.op = "logout" => resp.status = 200
    /\ (Serving /\ resp.op = "logout") => Me(resp.sid).status = 401

\* C4: every successful login yields an identifier no earlier successful
\* login yielded, and the sessions are independent: a logout leaves every
\* other session as it was.
C4_DistinctSessions ==
    [][/\ (resp = NoResp /\ resp'.op = "login" /\ resp'.status = 200)
           => resp'.cookie \notin yielded
       /\ (resp = NoResp /\ resp'.op = "logout")
           => \A s \in DOMAIN sessions \ {resp'.sid} :
                  s \in DOMAIN sessions' /\ sessions'[s] = sessions[s]]_vars

\* C5: a login that meets a dependency failure (query, password comparison,
\* saving the session) is answered 500 with the fixed message, and the
\* identifier it hands out, if any, names no session that GET /me resolves.
C5_DependencyFailure500 ==
    (resp.op = "login" /\ resp.fault \in {"query", "compare", "save"})
        => /\ resp.status = 500
           /\ resp.message = "Sunucu hatasi"
           /\ resp.cookie # None => resp.cookie \notin DOMAIN sessions

\* C7: the server listens only with a valid configuration and both syncs
\* succeeded, and once a startup step has failed it has never listened and
\* is on its way out.
C7_SequentialStartup ==
    /\ listening => (SecretValid(secret) /\ sessSync = "ok" /\ dbSync = "ok")
    /\ (sessSync = "failed" \/ dbSync = "failed")
           => (~everListened /\ phase \in {"exiting", "exited"})


C8_FetchFailureHandled ==
    [][(/\ calls["fetchUser"].stage = "replied"
        /\ calls'["fetchUser"].stage # "replied"
        /\ ~Resolves(calls["fetchUser"]))
       => (user' = Absent /\ calls'["fetchUser"].stage # "rejected")]_vars

C10_ClientAgreesWithServer ==
    (mounts > 0 /\ \A s \in Slots : Settled(s))
        => user = (IF cookie \in DOMAIN sessions THEN sessions[cookie] ELSE Absent)

====
